---- MODULE Spec2Model ----
(***************************************************************************)
(* Model of Study With: the progression engine                             *)
(* (src/src/study_with/progression_manager.py: points, scrolls, stage, the *)
(* three equipment slots, the enhancement rolls, the automatic stage       *)
(* advance and the single-hit stage battle), the session log and its       *)
(* statistics (session_manager.py) and the focus timer that writes the     *)
(* log (app.py).                                                           *)
(*                                                                         *)
(* Units.  The code works on Python floats that it rounds to one or two    *)
(* places; the model keeps them as exact integers (remaining_hp, a running *)
(* difference of such floats, is kept exact too):                          *)
(*   power, total_power      hundredths   (round(..., 2))                  *)
(*   damage, hp, remaining   tenths       (round(..., 1))                  *)
(*   rates and rolls         thousandths  (0.9 -> 900)                     *)
(*   damage factor           tenths       (0.7 -> 7)                       *)
(* The battle log (a list appended on every hit, never read by the         *)
(* manager) is left out of battle_state.  A hit draws its damage, not the  *)
(* factor behind it: any damage between round(0.7 * total_power, 1) and    *)
(* round(1.3 * total_power, 1) is the damage of some factor in [0.7, 1.3], *)
(* so the result of a hit carries no factor field.                         *)
(*                                                                         *)
(* Specifications.  Spec: a manager on a fresh data directory and all its  *)
(* calls (FairSpec: with the loop of try_auto_advance kept running).       *)
(* BattleSpec: a manager loaded from a saved file, battles and automatic   *)
(* advances with a range of damages.  PurchaseSpec: the point and scroll   *)
(* calls with more than one scroll price.  GrantSpec: the points of a      *)
(* session for arguments of every sign.  LoadSpec: a manager loaded from   *)
(* files that lack slots or fields.  FaultSpec: the writing calls where a  *)
(* write may fail.  SessionSpec: the session log and its statistics as     *)
(* the days pass.  RankSpec: the rank of a score.  TimerSpec: the focus    *)
(* timer.  RatesSpec: the enhancement rates at every level up to MaxLevel. *)
(* RecentSpec: the most recent sessions of a growing log.                  *)
(***************************************************************************)
EXTENDS Integers, Sequences, FiniteSets, TLC

VARIABLES
    points,        \* ProgressionState.points
    stage,         \* ProgressionState.stage
    scrolls,       \* ProgressionState.scrolls
    inventory,     \* ProgressionState.inventory: slot -> [base_power, enhancement]
    battle_state,  \* ProgressionManager.battle_state: NoBattle or the battle record
    disk,          \* content of progression.json: NoFile or a saved state
    disk_fails,    \* environment: whether a write of progression.json may fail
    pc,            \* "idle" between calls, "try_auto_advance" inside its loop
    advanced,      \* local variable of try_auto_advance
    ret,           \* the last call: its name and what it returned
    granted,       \* history: the points granted so far (bounds the model)
    enhance_results, \* history: the enhance() calls that returned a result
    io,            \* how the write of the last call went; "none": it wrote nothing
    failed_writes, \* history: the writes that have failed so far (bounds the model)
    sessions,      \* SessionManager.sessions: the list of session records
    sessions_file, \* content of sessions.json: NoFile or a saved list
    today,         \* environment: the day datetime.now() falls on
    is_running,          \* StudyWithLogic.is_running
    current_state,       \* StudyWithLogic.current_state: "READY", "FOCUS", "BREAK"
    current_cycle,       \* StudyWithLogic.current_cycle
    total_cycles,        \* StudyWithLogic.total_cycles
    time_left,           \* StudyWithLogic.time_left, in seconds
    total_focus_seconds, \* StudyWithLogic.total_focus_seconds
    session_start_time,  \* StudyWithLogic.session_start_time: NoStart or a datetime
    focus_duration,      \* StudyWithLogic.focus_duration, in minutes
    break_duration,      \* StudyWithLogic.break_duration, in minutes
    timer_active,        \* whether the QTimer self.timer is started
    blocking             \* ApiServer.is_blocking, and with it whether blocker_thread exists

\* The fields of the window that runs the focus timer.
timer_vars ==
    <<is_running, current_state, current_cycle, total_cycles, time_left,
      total_focus_seconds, session_start_time, focus_duration, break_duration,
      timer_active, blocking>>

\* What the progression manager never touches.
outside_progression == <<sessions, sessions_file, today, timer_vars>>

\* What a call of the session manager from outside the timer never touches.
outside_sessions ==
    <<points, stage, scrolls, inventory, battle_state, disk, pc, advanced, granted,
      timer_vars>>

vars == <<points, stage, scrolls, inventory, battle_state, disk, disk_fails,
          pc, advanced, ret, granted, enhance_results, io, failed_writes,
          outside_progression>>

---------------------------------------------------------------------------
(* Bounds of the model and the inputs the calls are tried with.            *)

MaxGranted == 120
MaxSessions == 3
MaxFailedWrites == 1
MaxScoreHundreds == 160
MaxLevel == 12
MaxDay == 3

Slots == {"book", "pencil", "laptop"}
SlotArgs == Slots \cup {"eraser"}
Amounts == {-10, 0, 40}
FocusMinutes == {-5, 0, 200}
Cycles == {-1, 0, 8}
FocusDurations == {50, 60}
Quantities == {-1, 0, 1, 3}
\* The arguments of grant_points_from_session on its own: every mix of signs.
GrantMinutes == {-5, 0, 3, 7, 25}
GrantCycles == {-1, 0, 1, 4}
GrantDurations == {-30, 0, 24, 25, 60}
Costs == {25, 40}
Rolls == {0, 20, 700, 950}
\* What the timer reports of a session, apart from its times: one that ran
\* through its cycles and one stopped early.
SessionShapes ==
    {[clock |-> 0, total_focus_minutes |-> 95, total_cycles |-> 2,
      completed_cycles |-> 2, focus_duration |-> 45, break_duration |-> 10],
     [clock |-> 1, total_focus_minutes |-> 40, total_cycles |-> 3,
      completed_cycles |-> 1, focus_duration |-> 25, break_duration |-> 5]}
\* The values of the three spin boxes a session is started with.
CycleInputs == {1, 2}
FocusInputs == {1}
BreakInputs == {1}
\* The scores _calculate_rank is tried with: every multiple of 100 and the
\* score just below it, from below 0 to beyond the last threshold.
Scores == {k * 100 - d : k \in -1..MaxScoreHundreds, d \in {0, 1}}
\* Candidate damages of a hit, in tenths: one for the whole engine, a range
\* of them for the battle on its own.
Damages == {400}
BattleDamages == {250, 300, 350, 400, 450, 500}

---------------------------------------------------------------------------
(* Program constants.                                                      *)

DefaultCost == 40
SecondsPerMinute == 60
HitLimit == 10
BaseRequirement == 30
RequirementStep == 10

NoBattle == [none |-> TRUE]
NoFile == [none |-> TRUE]
NoStart == [none |-> TRUE]
\* A file that open(..., "w") emptied and json.dump did not finish.
Truncated == [truncated |-> TRUE]

Max(a, b) == IF a >= b THEN a ELSE b
Min(a, b) == IF a <= b THEN a ELSE b

\* Python's round() of the exact quotient n / d (d > 0): to nearest, ties to even.
RoundDiv(n, d) ==
    LET q == n \div d
        r == n % d
    IN  IF 2 * r < d THEN q
        ELSE IF 2 * r > d THEN q + 1
        ELSE IF q % 2 = 0 THEN q ELSE q + 1

---------------------------------------------------------------------------
(* Equipment and the persisted state.                                      *)

_default_inventory ==
    [s \in Slots |->
        [base_power |-> CASE s = "book" -> 10 [] s = "pencil" -> 7 [] OTHER -> 15,
         enhancement |-> 0]]

\* Equipment.power, in hundredths: round(base_power * (1 + enhancement * 0.2), 2).
\* The product is a multiple of 0.2, so rounding to two places keeps it.
power(item) == item.base_power * (100 + item.enhancement * 20)

RECURSIVE SumPower(_, _)
SumPower(inv, S) ==
    IF S = {} THEN 0
    ELSE LET s == CHOOSE x \in S : TRUE
         IN  power(inv[s]) + SumPower(inv, S \ {s})

\* total_power(), in hundredths
total_power_of(inv) == SumPower(inv, DOMAIN inv)
total_power == total_power_of(inventory)

\* ProgressionState.to_dict()
to_dict(p, st, sc, inv) ==
    [points |-> p, stage |-> st, scrolls |-> sc, inventory |-> inv]

\* How "with open(path, 'w') as f: json.dump(data, f)" can go: it goes through;
\* open() raises; or json.dump raises after open() has emptied the file.
write_outcomes ==
    IF disk_fails /\ failed_writes < MaxFailedWrites
    THEN {"ok", "open_failed", "write_failed"}
    ELSE {"ok"}

\* A write that went as `outcome` is on record.
write_recorded(outcome) ==
    /\ io' = outcome
    /\ failed_writes' = IF outcome = "ok" THEN failed_writes ELSE failed_writes + 1

\* The call writes no file.
no_write == io' = "none" /\ UNCHANGED failed_writes

\* The file such a write leaves, from the old content and the data.
written(outcome, old, data) ==
    CASE outcome = "ok" -> data
      [] outcome = "open_failed" -> old
      [] OTHER -> Truncated

\* _save_state() of the state (p, st, sc, inv); the exception of a failed
\* write is caught.
_save_state(p, st, sc, inv) ==
    \E outcome \in write_outcomes :
        /\ write_recorded(outcome)
        /\ disk' = written(outcome, disk, to_dict(p, st, sc, inv))

\* dict.get(key, default)
Get(d, key, default) == IF key \in DOMAIN d THEN d[key] ELSE default

EmptyDict == [k \in {} |-> 0]

\* _load_state() taking a persisted item as it is, without the defaults
\* under it.
_load_state_unmerged(file) ==
    IF file = NoFile \/ file = Truncated
    THEN to_dict(0, 1, 0, _default_inventory)
    ELSE LET inventory_raw == Get(file, "inventory", EmptyDict)
         IN  to_dict(Get(file, "points", 0),
                     Get(file, "stage", 1),
                     Get(file, "scrolls", 0),
                     [slot \in Slots |->
                         Get(inventory_raw, slot, _default_inventory[slot])])

\* _load_state() reading points, stage and scrolls but not the inventory.
_load_state_without_inventory(file) ==
    IF file = NoFile \/ file = Truncated
    THEN to_dict(0, 1, 0, _default_inventory)
    ELSE to_dict(Get(file, "points", 0),
                 Get(file, "stage", 1),
                 Get(file, "scrolls", 0),
                 _default_inventory)

\* _load_state(): the defaults when there is no file or json.load raises on
\* it; else the file's fields, each slot being the default item overridden by
\* what the file holds of it.
_load_state(file) ==
    IF file = NoFile \/ file = Truncated
    THEN to_dict(0, 1, 0, _default_inventory)
    ELSE LET inventory_raw == Get(file, "inventory", EmptyDict)
             merged(slot) ==
                 LET raw_item == Get(inventory_raw, slot, EmptyDict)
                     default_item == _default_inventory[slot]
                 IN  [base_power |-> Get(raw_item, "base_power", default_item.base_power),
                      enhancement |-> Get(raw_item, "enhancement", default_item.enhancement)]
         IN  to_dict(Get(file, "points", 0),
                     Get(file, "stage", 1),
                     Get(file, "scrolls", 0),
                     [slot \in Slots |-> merged(slot)])

\* What a call returned: a value, or None.
Returned(op, val) == [op |-> op, none |-> FALSE, val |-> val]
ReturnedNone(op) == [op |-> op, none |-> TRUE]

---------------------------------------------------------------------------
(* Points and scrolls.                                                     *)

add_points(amount) ==
    /\ pc = "idle"
    /\ IF amount <= 0
       THEN /\ ret' = Returned("add_points", FALSE)
            /\ no_write
            /\ UNCHANGED <<points, disk, granted>>
       ELSE /\ granted + amount <= MaxGranted
            /\ granted' = granted + amount
            /\ points' = points + amount
            /\ _save_state(points', stage, scrolls, inventory)
            /\ ret' = Returned("add_points", TRUE)
    /\ UNCHANGED <<stage, scrolls, inventory, battle_state, disk_fails, enhance_results, pc, advanced>>
    /\ UNCHANGED outside_progression

\* The points of a session without the max(..., 0) around each term.
earned_points_unclamped(total_focus_minutes, completed_cycles, focus_duration_arg) ==
    (total_focus_minutes \div 5) + completed_cycles * 3
        + completed_cycles * (focus_duration_arg \div 25)

\* Python's floor division by a positive divisor is TLA+'s \div.
earned_points(total_focus_minutes, completed_cycles, focus_duration_arg) ==
    LET focus_points == Max(total_focus_minutes \div 5, 0)
        cycle_points == Max(completed_cycles, 0) * 3
        duration_bonus == Max(completed_cycles, 0) * Max(focus_duration_arg \div 25, 0)
    IN  focus_points + cycle_points + duration_bonus

grant_points_from_session(total_focus_minutes, completed_cycles, focus_duration_arg) ==
    LET earned == earned_points(total_focus_minutes, completed_cycles, focus_duration_arg)
    IN  /\ pc = "idle"
        /\ IF total_focus_minutes <= 0 /\ completed_cycles <= 0
           THEN /\ ret' = Returned("grant_points_from_session", 0)
                /\ no_write
                /\ UNCHANGED <<points, disk, granted>>
           ELSE /\ granted + earned <= MaxGranted
                /\ granted' = granted + earned
                /\ points' = points + earned
                /\ _save_state(points', stage, scrolls, inventory)
                /\ ret' = Returned("grant_points_from_session", earned)
        /\ UNCHANGED <<stage, scrolls, inventory, battle_state, disk_fails, enhance_results, pc, advanced>>
        /\ UNCHANGED outside_progression

\* buy_scroll() refusing a purchase that takes every point.
buy_refused_strict(quantity, total_cost) == quantity <= 0 \/ points <= total_cost

\* buy_scroll() without its test of the balance.
buy_refused_unfunded(quantity, total_cost) == quantity <= 0

\* The two early returns of buy_scroll().
buy_refused(quantity, total_cost) == quantity <= 0 \/ points < total_cost

buy_scroll(quantity, cost_per_scroll) ==
    LET total_cost == quantity * cost_per_scroll
    IN  /\ pc = "idle"
        /\ IF buy_refused(quantity, total_cost)
           THEN /\ ret' = Returned("buy_scroll", FALSE)
                /\ no_write
                /\ UNCHANGED <<points, scrolls, disk>>
           ELSE /\ points' = points - total_cost
                /\ scrolls' = scrolls + quantity
                /\ _save_state(points', stage, scrolls', inventory)
                /\ ret' = Returned("buy_scroll", TRUE)
        /\ UNCHANGED <<stage, inventory, battle_state, disk_fails, enhance_results, pc, advanced,
                       granted>>
        /\ UNCHANGED outside_progression

---------------------------------------------------------------------------
(* Enhancement.                                                            *)

\* _success_rate without its floor of 0.15.
_success_rate_unfloored(enhancement_level) == 900 - enhancement_level * 80

\* _success_rate, in thousandths: max(0.9 - level * 0.08, 0.15)
_success_rate(enhancement_level) == Max(900 - enhancement_level * 80, 150)

\* _downgrade_rate, in thousandths
_downgrade_rate(enhancement_level) ==
    IF enhancement_level <= 1 THEN 0
    ELSE Min(30 * (enhancement_level - 1), 200)

\* round(rate * 100, 1) of a rate in thousandths: a percentage, in tenths of
\* a percent.
percent(rate) == RoundDiv(rate * 100 * 10, 1000)

\* get_enhance_rates(slot): a read.
get_enhance_rates(slot) ==
    /\ pc = "idle"
    /\ IF slot \notin DOMAIN inventory
       THEN ret' = Returned("get_enhance_rates", [success |-> 0, downgrade |-> 0])
       ELSE LET level == inventory[slot].enhancement
            IN  ret' = Returned("get_enhance_rates",
                                [success |-> percent(_success_rate(level)),
                                 downgrade |-> percent(_downgrade_rate(level))])
    /\ no_write
    /\ UNCHANGED <<points, stage, scrolls, inventory, battle_state, disk, disk_fails,
                   enhance_results, pc, advanced, granted>>
    /\ UNCHANGED outside_progression

\* enhance() without the test item.enhancement > 0 before the downgrade.
enhance_outcome_unguarded(before, roll, roll2) ==
    LET success == roll <= _success_rate(before)
        downgraded == ~success /\ roll2 <= _downgrade_rate(before)
    IN  [success |-> success,
         downgraded |-> downgraded,
         after |-> IF success THEN before + 1
                   ELSE IF downgraded THEN before - 1 ELSE before]

\* enhance() lowering every failed item above level 0, whatever the second
\* roll.
enhance_outcome_always_down(before, roll, roll2) ==
    LET success == roll <= _success_rate(before)
        downgraded == ~success /\ before > 0
    IN  [success |-> success,
         downgraded |-> downgraded,
         after |-> IF success THEN before + 1
                   ELSE IF downgraded THEN before - 1 ELSE before]

\* The level an enhance() call leaves, from the level before and the two rolls
\* (random.random() of the success test, random.random() of the downgrade test).
enhance_outcome(before, roll, roll2) ==
    LET success == roll <= _success_rate(before)
        downgraded == ~success /\ before > 0 /\ roll2 <= _downgrade_rate(before)
    IN  [success |-> success,
         downgraded |-> downgraded,
         after |-> IF success THEN before + 1
                   ELSE IF downgraded THEN before - 1 ELSE before]

\* enhance() taking the scroll only when the enhancement fails.
enhance_scrolls_on_failure(sc, outcome) == IF outcome.success THEN sc ELSE sc - 1

\* enhance() giving the scroll back when the level goes down.
enhance_scrolls_refunded(sc, outcome) == IF outcome.downgraded THEN sc ELSE sc - 1

\* scrolls after an enhance() call that passed its guard
enhance_scrolls(sc, outcome) == sc - 1

\* enhance() without its test of the scrolls.
enhance_refused_unknown_only(slot) == slot \notin DOMAIN inventory

\* The early return of enhance(): no such item, or no scroll.
enhance_refused(slot) == slot \notin DOMAIN inventory \/ scrolls <= 0

\* enhance() past its early return, with the values `roll` and `roll2` of
\* its two random.random() calls.
enhance_rolled(slot, roll, roll2) ==
    LET before == inventory[slot].enhancement
        out == enhance_outcome(before, roll, roll2)
    IN  /\ scrolls' = enhance_scrolls(scrolls, out)
        /\ enhance_results' = enhance_results + 1
        /\ inventory' = [inventory EXCEPT ![slot].enhancement = out.after]
        /\ _save_state(points, stage, scrolls', inventory')
        /\ ret' = Returned("enhance",
                           [slot |-> slot,
                            success |-> out.success,
                            before_level |-> before,
                            after_level |-> out.after,
                            success_rate |-> _success_rate(before),
                            downgraded |-> out.downgraded])

enhance(slot) ==
    /\ pc = "idle"
    /\ IF enhance_refused(slot)
       THEN /\ ret' = ReturnedNone("enhance")
            /\ no_write
            /\ UNCHANGED <<scrolls, inventory, disk, enhance_results>>
       ELSE \E roll \in Rolls, roll2 \in Rolls : enhance_rolled(slot, roll, roll2)
    /\ UNCHANGED <<points, stage, battle_state, disk_fails, pc, advanced, granted>>
    /\ UNCHANGED outside_progression

---------------------------------------------------------------------------
(* Stages.                                                                 *)

_power_requirement(next_stage) ==
    IF next_stage <= 2 THEN BaseRequirement
    ELSE BaseRequirement + (next_stage - 2) * RequirementStep

_stage_hp(next_stage) == _power_requirement(next_stage) * 10

\* The loop test of try_auto_advance with > for >=.
can_advance_strict(tp, target_stage) == tp > _power_requirement(target_stage) * 100

\* The loop test of try_auto_advance: total_power() >= _power_requirement(target)
\* (total power in hundredths against a whole requirement).
can_advance(tp, target_stage) == tp >= _power_requirement(target_stage) * 100

\* One pass of the while loop of try_auto_advance(), with the local variable
\* advanced at adv: raise the stage and go round again, or break, save if the
\* stage was raised, and return.
try_auto_advance_pass(adv) ==
    LET target_stage == stage + 1
    IN  IF can_advance(total_power, target_stage)
        THEN /\ stage' = target_stage
             /\ advanced' = TRUE
             /\ pc' = "try_auto_advance"
             /\ no_write
             /\ UNCHANGED <<disk, ret>>
        ELSE /\ pc' = "idle"
             /\ advanced' = FALSE
             /\ UNCHANGED stage
             /\ IF adv
                THEN /\ _save_state(points, stage, scrolls, inventory)
                     /\ ret' = Returned("try_auto_advance", stage)
                ELSE /\ UNCHANGED disk
                     /\ no_write
                     /\ ret' = ReturnedNone("try_auto_advance")

\* The call of try_auto_advance(): advanced = False and the first pass.
try_auto_advance ==
    /\ pc = "idle"
    /\ try_auto_advance_pass(FALSE)
    /\ UNCHANGED <<points, scrolls, inventory, battle_state, disk_fails, enhance_results, granted>>
    /\ UNCHANGED outside_progression

\* A later pass of the loop.
try_auto_advance_loop ==
    /\ pc = "try_auto_advance"
    /\ try_auto_advance_pass(advanced)
    /\ UNCHANGED <<points, scrolls, inventory, battle_state, disk_fails, enhance_results, granted>>
    /\ UNCHANGED outside_progression

---------------------------------------------------------------------------
(* The stage battle, one hit per call.                                     *)

\* The battle record start_stage_battle() builds: hp in whole points,
\* remaining_hp in tenths.
new_battle(st) ==
    LET target_stage == st + 1
        hp == _stage_hp(target_stage)
    IN  [target_stage |-> target_stage,
         hp |-> hp,
         remaining_hp |-> hp * 10,
         hits_used |-> 0,
         limit |-> HitLimit]

start_stage_battle ==
    /\ pc = "idle"
    /\ battle_state' = new_battle(stage)
    /\ ret' = Returned("start_stage_battle", battle_state')
    /\ no_write
    /\ UNCHANGED <<points, stage, scrolls, inventory, disk, disk_fails, enhance_results, pc, advanced,
                   granted>>
    /\ UNCHANGED outside_progression

\* The test at the top of hit_stage_battle(): no battle, or a stored one that is over.
needs_start(b) ==
    \/ b = NoBattle
    \/ b.hits_used >= b.limit
    \/ b.remaining_hp <= 0

\* round(total_power * factor, 1), in tenths
hit_damage(tp, factor) == RoundDiv(tp * factor, 100)

\* The damages of `candidates` that random.uniform(1 - 0.3, 1 + 0.3) can produce.
damage_choices(tp, candidates) ==
    {d \in candidates : hit_damage(tp, 7) <= d /\ d <= hit_damage(tp, 13)}

\* The battle record after the hit is applied.
apply_hit(b, dmg) ==
    [b EXCEPT !.hits_used = @ + 1, !.remaining_hp = @ - dmg]

hit_success(b) == b.remaining_hp <= 0

\* finished with > for >=: the tenth hit does not end the battle.
hit_finished_late(b) == hit_success(b) \/ b.hits_used > b.limit

hit_finished(b) == hit_success(b) \/ b.hits_used >= b.limit

\* The stage raised by any finished battle, lost ones too.
stage_after_hit_any(st, b) ==
    IF hit_finished(b) THEN b.target_stage ELSE st

\* The battle state kept when the battle is lost.
battle_after_hit_kept(b) == IF hit_finished(b) /\ hit_success(b) THEN NoBattle ELSE b

\* The battle state kept when the battle is won.
battle_after_hit_won_kept(b) == IF hit_finished(b) /\ ~hit_success(b) THEN NoBattle ELSE b

\* The stage a hit leaves, from the battle record after the hit.
stage_after_hit(st, b) ==
    IF hit_finished(b) /\ hit_success(b) THEN b.target_stage ELSE st

\* The stored battle a hit leaves.
battle_after_hit(b) == IF hit_finished(b) THEN NoBattle ELSE b

\* hit_stage_battle(variance = 0.3) whose factor gives the damage dmg.
hit_stage_battle(dmg) ==
    LET b0 == IF needs_start(battle_state) THEN new_battle(stage) ELSE battle_state
        tp == total_power
        b1 == apply_hit(b0, dmg)
        success == hit_success(b1)
        finished == hit_finished(b1)
        result == [success |-> success,
                   finished |-> finished,
                   target_stage |-> b1.target_stage,
                   hp |-> b1.hp,
                   remaining_hp |-> b1.remaining_hp,
                   hit_index |-> b1.hits_used,
                   hit_damage |-> dmg,
                   total_power |-> tp,
                   hits_used |-> b1.hits_used,
                   limit |-> b1.limit]
    IN  /\ pc = "idle"
        /\ stage' = stage_after_hit(stage, b1)
        /\ IF finished /\ success
           THEN _save_state(points, stage', scrolls, inventory)
           ELSE no_write /\ UNCHANGED disk
        /\ battle_state' = battle_after_hit(b1)
        /\ ret' = Returned("hit_stage_battle", result)
        /\ UNCHANGED <<points, scrolls, inventory, disk_fails, enhance_results, pc, advanced, granted>>
        /\ UNCHANGED outside_progression

\* get_battle_status(): a read of the current state.
get_battle_status ==
    IF battle_state = NoBattle
    THEN [in_progress |-> FALSE,
          target_stage |-> stage + 1,
          hp |-> _stage_hp(stage + 1),
          remaining_hp |-> NoBattle,
          hits_used |-> 0,
          limit |-> HitLimit]
    ELSE [in_progress |-> TRUE,
          target_stage |-> battle_state.target_stage,
          hp |-> battle_state.hp,
          remaining_hp |-> battle_state.remaining_hp,
          hits_used |-> battle_state.hits_used,
          limit |-> battle_state.limit]

---------------------------------------------------------------------------
(* The session log (src/src/study_with/session_manager.py).                *)
(* A datetime is a record [day, clock]; the string isoformat() makes of it *)
(* is kept as the pair <<day, clock>>, which orders as the string does,    *)
(* and the string of a date as the number of its day.  The Korean display  *)
(* names are written in Latin letters.  total_focus_hours, a rounded float *)
(* that nothing else reads, is left out of the statistics.                 *)

isoformat(dt) == <<dt.day, dt.clock>>
date_isoformat(dt) == dt.day

\* The record add_session() builds from its arguments.
session_record(start_time, end_time, total_focus_minutes, total_cycles_arg, completed_cycles, focus_duration_arg, break_duration_arg) ==
    [start_time |-> isoformat(start_time),
     end_time |-> isoformat(end_time),
     total_focus_minutes |-> total_focus_minutes,
     total_cycles |-> total_cycles_arg,
     completed_cycles |-> completed_cycles,
     focus_duration |-> focus_duration_arg,
     break_duration |-> break_duration_arg,
     date |-> date_isoformat(start_time)]

\* The document json.dump(self.sessions, f) writes: a list.
json_list(log) == [list |-> log]

\* load_sessions(): the list in the file; [] without a file or when json.load
\* raises.
load_sessions(file) ==
    IF file = NoFile \/ file = Truncated THEN <<>> ELSE file.list

\* save_sessions() of the list `log`; the exception of a failed write is
\* caught and printed.
save_sessions(log) ==
    \E outcome \in write_outcomes :
        /\ write_recorded(outcome)
        /\ sessions_file' = written(outcome, sessions_file, json_list(log))

\* add_session() putting the new record in front.
appended_in_front(log, record) == <<record>> \o log

\* self.sessions.append(session)
appended(log, record) == Append(log, record)

\* add_session(): the record is appended and the list saved.
add_session(start_time, end_time, total_focus_minutes, total_cycles_arg, completed_cycles, focus_duration_arg, break_duration_arg) ==
    LET session == session_record(start_time, end_time, total_focus_minutes,
                                  total_cycles_arg, completed_cycles,
                                  focus_duration_arg, break_duration_arg)
    IN  /\ sessions' = appended(sessions, session)
        /\ save_sessions(sessions')

\* A call of add_session() from outside the timer.
add_session_call(start_time, end_time, total_focus_minutes, total_cycles_arg, completed_cycles, focus_duration_arg, break_duration_arg) ==
    /\ pc = "idle"
    /\ Len(sessions) < MaxSessions
    /\ add_session(start_time, end_time, total_focus_minutes, total_cycles_arg,
                   completed_cycles, focus_duration_arg, break_duration_arg)
    /\ ret' = ReturnedNone("add_session")
    /\ UNCHANGED <<today, disk_fails, enhance_results>>
    /\ UNCHANGED outside_sessions

\* The tiers, lowest first.
Tiers ==
    <<"BRONZE", "SILVER", "GOLD", "PLATINUM", "DIAMOND", "MASTER", "GRANDMASTER",
      "CHALLENGER", "LEGEND">>

TierIndex(rank) == CHOOSE i \in 1..Len(Tiers) : Tiers[i] = rank

\* _calculate_rank with <= for < in its tests.
rank_code_inclusive(score) ==
    CASE score <= 100 -> "BRONZE"
      [] score <= 300 -> "SILVER"
      [] score <= 600 -> "GOLD"
      [] score <= 1000 -> "PLATINUM"
      [] score <= 2000 -> "DIAMOND"
      [] score <= 4000 -> "MASTER"
      [] score <= 8000 -> "GRANDMASTER"
      [] score <= 15000 -> "CHALLENGER"
      [] OTHER -> "LEGEND"

\* The "rank" that _calculate_rank(score) returns: the first test that passes.
rank_code(score) ==
    IF score < 100 THEN "BRONZE"
    ELSE IF score < 300 THEN "SILVER"
    ELSE IF score < 600 THEN "GOLD"
    ELSE IF score < 1000 THEN "PLATINUM"
    ELSE IF score < 2000 THEN "DIAMOND"
    ELSE IF score < 4000 THEN "MASTER"
    ELSE IF score < 8000 THEN "GRANDMASTER"
    ELSE IF score < 15000 THEN "CHALLENGER"
    ELSE "LEGEND"

\* The display name of each tier below LEGEND.
rank_names ==
    [BRONZE |-> "beuronjeu", SILVER |-> "silbeo", GOLD |-> "goldeu",
     PLATINUM |-> "peullaetineom", DIAMOND |-> "daiamondeu",
     MASTER |-> "maseuteo", GRANDMASTER |-> "geuraendeumaseuteo",
     CHALLENGER |-> "chaellinjeo"]

\* Three digits of a group after a comma.
Pad3(n) ==
    IF n < 10 THEN "00" \o ToString(n)
    ELSE IF n < 100 THEN "0" \o ToString(n)
    ELSE ToString(n)

\* f"{score:,}" of a score from 1,000 to 999,999, followed by the counter word
score_text(score) ==
    ToString(score \div 1000) \o "," \o Pad3(score % 1000) \o "jeom"

_calculate_rank(score) ==
    LET rank == rank_code(score)
    IN  [rank |-> rank,
         display |-> IF rank = "LEGEND" THEN score_text(score) ELSE rank_names[rank]]

\* sum(s.get(key, 0) for s in log)
RECURSIVE SumOf(_, _)
SumOf(log, key) ==
    IF log = <<>> THEN 0
    ELSE Get(Head(log), key, 0) + SumOf(Tail(log), key)

\* The records whose completed_cycles equal their total_cycles.
completed_sessions_of(log) ==
    Cardinality({i \in DOMAIN log :
                    Get(log[i], "completed_cycles", 0) = Get(log[i], "total_cycles", 0)})

\* set(s.get("date", "") for s in log if s.get("date")), as days
dates_of(log) ==
    {log[i].date : i \in {j \in DOMAIN log : "date" \in DOMAIN log[j]}}

\* sorted(dates)
RECURSIVE Sorted(_)
Sorted(S) ==
    IF S = {} THEN <<>>
    ELSE LET least == CHOOSE x \in S : \A y \in S : x <= y
         IN  <<least>> \o Sorted(S \ {least})

\* The while loop without its branch for a today that has no session.
RECURSIVE current_streak_loop_strict(_, _, _, _)
current_streak_loop_strict(date_objs, day, check_date, current_streak) ==
    IF check_date \in date_objs
    THEN current_streak_loop_strict(date_objs, day, check_date - 1, current_streak + 1)
    ELSE current_streak

\* The while loop of the current streak, at check_date with the streak so far.
RECURSIVE current_streak_loop(_, _, _, _)
current_streak_loop(date_objs, day, check_date, current_streak) ==
    IF check_date \in date_objs
    THEN current_streak_loop(date_objs, day, check_date - 1, current_streak + 1)
    ELSE IF check_date = day
    THEN current_streak_loop(date_objs, day, check_date - 1, current_streak)
    ELSE current_streak

\* The for loop counting any two neighbours of the sorted dates as
\* consecutive days.
RECURSIVE longest_streak_loop_any_gap(_, _, _, _)
longest_streak_loop_any_gap(date_objs, i, temp_streak, longest_streak) ==
    IF i > Len(date_objs) THEN longest_streak
    ELSE IF date_objs[i] - date_objs[i - 1] >= 1
    THEN longest_streak_loop_any_gap(date_objs, i + 1, temp_streak + 1,
                                     Max(longest_streak, temp_streak + 1))
    ELSE longest_streak_loop_any_gap(date_objs, i + 1, 1, longest_streak)

\* The for loop of the longest streak, at index i (from 1) of the sorted dates.
RECURSIVE longest_streak_loop(_, _, _, _)
longest_streak_loop(date_objs, i, temp_streak, longest_streak) ==
    IF i > Len(date_objs) THEN longest_streak
    ELSE IF date_objs[i] - date_objs[i - 1] = 1
    THEN longest_streak_loop(date_objs, i + 1, temp_streak + 1,
                             Max(longest_streak, temp_streak + 1))
    ELSE longest_streak_loop(date_objs, i + 1, 1, longest_streak)

\* total_score of get_statistics
total_score_of(total_focus_minutes, completed_sessions, current_streak) ==
    total_focus_minutes + completed_sessions * 10 + current_streak * 5

\* What get_statistics() returns for the list `log` on the day `day`.
statistics(log, day) ==
    IF log = <<>>
    THEN [total_sessions |-> 0,
          total_focus_minutes |-> 0,
          total_cycles |-> 0,
          completed_sessions |-> 0,
          current_streak |-> 0,
          longest_streak |-> 0,
          total_score |-> 0,
          rank |-> "beuronjeu",
          rank_display |-> "beuronjeu"]
    ELSE LET total_focus_minutes == SumOf(log, "total_focus_minutes")
             completed_sessions == completed_sessions_of(log)
             dates == dates_of(log)
             date_objs == Sorted(dates)
             current_streak ==
                 IF dates = {} THEN 0
                 ELSE current_streak_loop(dates, day, day, 0)
             longest_streak ==
                 IF dates = {} THEN 0
                 ELSE longest_streak_loop(date_objs, 2, 1, 1)
             total_score == total_score_of(total_focus_minutes,
                                           completed_sessions, current_streak)
             rank_info == _calculate_rank(total_score)
         IN  [total_sessions |-> Len(log),
              total_focus_minutes |-> total_focus_minutes,
              total_cycles |-> SumOf(log, "completed_cycles"),
              completed_sessions |-> completed_sessions,
              current_streak |-> current_streak,
              longest_streak |-> longest_streak,
              total_score |-> total_score,
              rank |-> rank_info.rank,
              rank_display |-> rank_info.display]

\* A call of get_statistics(): a read.
get_statistics ==
    /\ pc = "idle"
    /\ ret' = Returned("get_statistics", statistics(sessions, today))
    /\ no_write
    /\ UNCHANGED <<sessions, sessions_file, today, disk_fails, enhance_results>>
    /\ UNCHANGED outside_sessions

\* A call of _calculate_rank(score): a read.
calculate_rank(score) ==
    /\ pc = "idle"
    /\ ret' = Returned("_calculate_rank", [score |-> score] @@ _calculate_rank(score))
    /\ no_write
    /\ UNCHANGED <<sessions, sessions_file, today, disk_fails, enhance_results>>
    /\ UNCHANGED outside_sessions

\* a < b of two start_time strings: isoformat() strings of one length order
\* as their <<day, clock>> pairs do.
start_time_less(a, b) == a[1] < b[1] \/ (a[1] = b[1] /\ a[2] < b[2])

\* One step of a sort that puts a record in front of its equals.
RECURSIVE inserted_before_equals(_, _)
inserted_before_equals(sorted_log, record) ==
    IF sorted_log = <<>> THEN <<record>>
    ELSE IF ~start_time_less(record.start_time, Head(sorted_log).start_time)
    THEN <<record>> \o sorted_log
    ELSE <<Head(sorted_log)>> \o inserted_before_equals(Tail(sorted_log), record)

\* One step of sorted(..., reverse=True), which is stable: the record goes
\* behind every record whose start_time is not less than its own.
RECURSIVE inserted(_, _)
inserted(sorted_log, record) ==
    IF sorted_log = <<>> THEN <<record>>
    ELSE IF start_time_less(Head(sorted_log).start_time, record.start_time)
    THEN <<record>> \o sorted_log
    ELSE <<Head(sorted_log)>> \o inserted(Tail(sorted_log), record)

\* sorted(log, key=lambda x: x.get("start_time", ""), reverse=True); every
\* record add_session() builds has a start_time.
RECURSIVE sorted_sessions(_)
sorted_sessions(log) ==
    IF log = <<>> THEN <<>>
    ELSE inserted(sorted_sessions(SubSeq(log, 1, Len(log) - 1)), log[Len(log)])

\* The slice seq[:limit] of Python.
slice_to(seq, limit) ==
    IF limit >= 0 THEN SubSeq(seq, 1, Min(limit, Len(seq)))
    ELSE SubSeq(seq, 1, Max(Len(seq) + limit, 0))

\* A call of get_recent_sessions(limit): a read.
get_recent_sessions(limit) ==
    /\ pc = "idle"
    /\ ret' = Returned("get_recent_sessions", slice_to(sorted_sessions(sessions), limit))
    /\ no_write
    /\ UNCHANGED <<sessions, sessions_file, today, disk_fails, enhance_results>>
    /\ UNCHANGED outside_sessions

\* Midnight passes.
next_day ==
    /\ pc = "idle"
    /\ today < MaxDay
    /\ today' = today + 1
    /\ UNCHANGED <<sessions, sessions_file, disk_fails, enhance_results, ret, io, failed_writes>>
    /\ UNCHANGED outside_sessions

---------------------------------------------------------------------------
(* The focus timer (src/src/study_with/app.py): the start button, the      *)
(* one-second QTimer and the session record they write.  The window has a  *)
(* session manager (its construction succeeded); the spin boxes are        *)
(* disabled while a session runs, so that focus_input.value() and          *)
(* break_input.value() are the focus_duration and break_duration taken at  *)
(* the start.  Labels, sounds and the log are left out.                    *)

\* datetime.now(), to the day
now == [day |-> today, clock |-> 0]

\* enable_blocking() / disable_blocking()
enable_blocking == blocking' = TRUE
disable_blocking == blocking' = FALSE

\* enter_focus_mode()
enter_focus_mode(focus_input) ==
    /\ current_state' = "FOCUS"
    /\ time_left' = focus_input * SecondsPerMinute
    /\ enable_blocking
    /\ timer_active' = TRUE

\* enter_break_mode() leaving the blocking as the focus had it.
enter_break_mode_blocking(break_input) ==
    /\ current_state' = "BREAK"
    /\ time_left' = break_input * SecondsPerMinute
    /\ UNCHANGED blocking
    /\ timer_active' = TRUE

\* enter_break_mode()
enter_break_mode(break_input) ==
    /\ current_state' = "BREAK"
    /\ time_left' = break_input * SecondsPerMinute
    /\ disable_blocking
    /\ timer_active' = TRUE

\* toggle_session() while no session runs: start_session().
start_session(cycle_input, focus_input, break_input) ==
    /\ pc = "idle"
    /\ ~is_running
    /\ Len(sessions) < MaxSessions
    /\ is_running' = TRUE
    /\ current_cycle' = 1
    /\ total_cycles' = cycle_input
    /\ session_start_time' = now
    /\ total_focus_seconds' = 0
    /\ focus_duration' = focus_input
    /\ break_duration' = break_input
    /\ enter_focus_mode(focus_input)
    /\ ret' = ReturnedNone("start_session")
    /\ no_write
    /\ UNCHANGED <<sessions, sessions_file, today, disk_fails, enhance_results>>
    /\ UNCHANGED <<points, stage, scrolls, inventory, battle_state, disk, pc,
                   advanced, granted>>

\* stop_session() counting the cycle in progress as completed.
completed_at_stop_counting_current(state, cycle) ==
    IF state = "FOCUS" THEN cycle + 1 ELSE cycle

\* completed_cycles of stop_session()
completed_at_stop(state, cycle) ==
    IF state = "FOCUS" THEN cycle - 1 ELSE cycle

\* The recording part of stop_session() and finish_all_sessions() that
\* leaves session_start_time as it is.
recorded_keeping_start(log, start, seconds, completed) ==
    IF start # NoStart
    THEN [sessions |->
              appended(log, session_record(start, now, seconds \div SecondsPerMinute,
                                           total_cycles, completed, focus_duration,
                                           break_duration)),
          session_start_time |-> start,
          total_focus_seconds |-> 0]
    ELSE [sessions |-> log, session_start_time |-> start, total_focus_seconds |-> seconds]

\* The part of stop_session() and finish_all_sessions() that records the
\* session with completed_cycles = completed, skipped once session_start_time
\* is None: the list, the start time and the focus seconds it leaves, from
\* those it finds.
recorded(log, start, seconds, completed) ==
    IF start # NoStart
    THEN [sessions |->
              appended(log, session_record(start, now, seconds \div SecondsPerMinute,
                                           total_cycles, completed, focus_duration,
                                           break_duration)),
          session_start_time |-> NoStart,
          total_focus_seconds |-> 0]
    ELSE [sessions |-> log, session_start_time |-> start, total_focus_seconds |-> seconds]

\* The fields such parts left at `after`, and the list saved by add_session()
\* if they added to it.
record_session(after) ==
    /\ sessions' = after.sessions
    /\ session_start_time' = after.session_start_time
    /\ total_focus_seconds' = after.total_focus_seconds
    /\ IF after.sessions # sessions
       THEN save_sessions(sessions')
       ELSE no_write /\ UNCHANGED sessions_file

\* What stop_session() does around the record.
stopped ==
    /\ timer_active' = FALSE
    /\ is_running' = FALSE
    /\ disable_blocking
    /\ current_state' = "READY"

\* toggle_session() while a session runs: stop_session().
stop_session ==
    /\ pc = "idle"
    /\ is_running
    /\ stopped
    /\ record_session(recorded(sessions, session_start_time, total_focus_seconds,
                               completed_at_stop(current_state, current_cycle)))
    /\ ret' = ReturnedNone("stop_session")
    /\ UNCHANGED <<current_cycle, total_cycles, time_left, focus_duration,
                   break_duration, today, disk_fails, enhance_results>>
    /\ UNCHANGED <<points, stage, scrolls, inventory, battle_state, disk, pc,
                   advanced, granted>>

\* finish_all_sessions(): the record of a session that ran through, then
\* stop_session(), which records again unless it finds session_start_time
\* None.
finish_all_sessions ==
    LET finished == recorded(sessions, session_start_time, total_focus_seconds,
                             total_cycles)
        after_stop == recorded(finished.sessions, finished.session_start_time,
                               finished.total_focus_seconds,
                               completed_at_stop(current_state, current_cycle))
    IN  /\ record_session(after_stop)
        /\ stopped
        /\ UNCHANGED <<current_cycle, time_left>>

\* update_timer(), the slot of the QTimer's timeout: one second less, or
\* the end of the focus or of the break.
update_timer ==
    /\ pc = "idle"
    /\ timer_active
    /\ IF time_left > 0
       THEN /\ time_left' = time_left - 1
            /\ total_focus_seconds' =
                   IF current_state = "FOCUS" THEN total_focus_seconds + 1
                   ELSE total_focus_seconds
            /\ no_write
            /\ UNCHANGED <<is_running, current_state, current_cycle,
                           session_start_time, timer_active, blocking,
                           sessions, sessions_file>>
       ELSE IF current_state = "FOCUS"
       THEN IF current_cycle >= total_cycles
            THEN finish_all_sessions
            ELSE /\ enter_break_mode(break_duration)
                 /\ no_write
                 /\ UNCHANGED <<is_running, current_cycle, session_start_time,
                                total_focus_seconds, sessions, sessions_file>>
       ELSE IF current_state = "BREAK"
       THEN /\ current_cycle' = current_cycle + 1
            /\ enter_focus_mode(focus_duration)
            /\ no_write
            /\ UNCHANGED <<is_running, session_start_time, total_focus_seconds,
                           sessions, sessions_file>>
       ELSE /\ timer_active' = FALSE
            /\ no_write
            /\ UNCHANGED <<is_running, current_state, current_cycle, time_left,
                           session_start_time, total_focus_seconds, blocking,
                           sessions, sessions_file>>
    /\ ret' = ReturnedNone("update_timer")
    /\ UNCHANGED <<total_cycles, focus_duration, break_duration, today, disk_fails, enhance_results>>
    /\ UNCHANGED <<points, stage, scrolls, inventory, battle_state, disk, pc,
                   advanced, granted>>

---------------------------------------------------------------------------
(* The manager after construction on a fresh data directory, and its calls *)
(* in any order.                                                           *)

Init ==
    /\ points = 0
    /\ stage = 1
    /\ scrolls = 0
    /\ inventory = _default_inventory
    /\ battle_state = NoBattle
    /\ disk = NoFile
    /\ disk_fails = FALSE
    /\ pc = "idle"
    /\ advanced = FALSE
    /\ ret = ReturnedNone("__init__")
    /\ granted = 0
    /\ enhance_results = 0
    /\ io = "none"
    /\ failed_writes = 0
    /\ sessions = load_sessions(NoFile)
    /\ sessions_file = NoFile
    /\ today = 0
    /\ is_running = FALSE
    /\ current_state = "READY"
    /\ current_cycle = 0
    /\ total_cycles = 0
    /\ time_left = 0
    /\ total_focus_seconds = 0
    /\ session_start_time = NoStart
    /\ focus_duration = 0
    /\ break_duration = 0
    /\ timer_active = FALSE
    /\ blocking = FALSE

Next ==
    \/ \E amount \in Amounts : add_points(amount)
    \/ \E m \in FocusMinutes, c \in Cycles, d \in FocusDurations :
           grant_points_from_session(m, c, d)
    \/ \E q \in Quantities : buy_scroll(q, DefaultCost)
    \/ \E slot \in SlotArgs : enhance(slot)
    \/ try_auto_advance
    \/ try_auto_advance_loop
    \/ start_stage_battle
    \/ \E dmg \in damage_choices(total_power, Damages) : hit_stage_battle(dmg)

Spec == Init /\ [][Next]_vars

\* The interpreter keeps running a loop it has entered.
FairSpec == Spec /\ WF_vars(try_auto_advance_loop)

---------------------------------------------------------------------------
(* The battle on its own: a manager constructed over a progression.json    *)
(* that an earlier run left, then battles and automatic advances with      *)
(* every damage of BattleDamages the current power allows.                 *)

WithLevels(book, pencil, laptop) ==
    [_default_inventory EXCEPT !["book"].enhancement = book,
                               !["pencil"].enhancement = pencil,
                               !["laptop"].enhancement = laptop]

SavedFiles ==
    {to_dict(0, 1, 0, WithLevels(0, 0, 0)),
     to_dict(0, 1, 0, WithLevels(1, 0, 0)),
     to_dict(0, 1, 0, WithLevels(1, 0, 2))}

BattleInit ==
    \E file \in SavedFiles :
        LET loaded == _load_state(file)
        IN  /\ disk = file
            /\ points = loaded.points
            /\ stage = loaded.stage
            /\ scrolls = loaded.scrolls
            /\ inventory = loaded.inventory
            /\ battle_state = NoBattle
            /\ disk_fails = FALSE
            /\ pc = "idle"
            /\ advanced = FALSE
            /\ ret = ReturnedNone("__init__")
            /\ granted = 0
            /\ enhance_results = 0
            /\ io = "none"
            /\ failed_writes = 0
            /\ sessions = load_sessions(NoFile)
            /\ sessions_file = NoFile
            /\ today = 0
            /\ is_running = FALSE
            /\ current_state = "READY"
            /\ current_cycle = 0
            /\ total_cycles = 0
            /\ time_left = 0
            /\ total_focus_seconds = 0
            /\ session_start_time = NoStart
            /\ focus_duration = 0
            /\ break_duration = 0
            /\ timer_active = FALSE
            /\ blocking = FALSE

BattleNext ==
    \/ try_auto_advance
    \/ try_auto_advance_loop
    \/ start_stage_battle
    \/ \E dmg \in damage_choices(total_power, BattleDamages) : hit_stage_battle(dmg)

BattleSpec == BattleInit /\ [][BattleNext]_vars

\* Any hit, whatever its damage.
AnyHit == \E dmg \in Damages \cup BattleDamages : hit_stage_battle(dmg)

---------------------------------------------------------------------------
(* The rates: a manager constructed over a progression.json whose book is  *)
(* at any level up to MaxLevel, with two scrolls; the rates are read and   *)
(* the items enhanced.                                                     *)

\* The manager and the window after construction over the file `file`.
constructed_on(file) ==
    LET loaded == _load_state(file)
    IN  /\ disk = file
        /\ points = loaded.points
        /\ stage = loaded.stage
        /\ scrolls = loaded.scrolls
        /\ inventory = loaded.inventory
        /\ battle_state = NoBattle
        /\ disk_fails = FALSE
        /\ pc = "idle"
        /\ advanced = FALSE
        /\ ret = ReturnedNone("__init__")
        /\ granted = 0
        /\ enhance_results = 0
        /\ io = "none"
        /\ failed_writes = 0
        /\ sessions = load_sessions(NoFile)
        /\ sessions_file = NoFile
        /\ today = 0
        /\ is_running = FALSE
        /\ current_state = "READY"
        /\ current_cycle = 0
        /\ total_cycles = 0
        /\ time_left = 0
        /\ total_focus_seconds = 0
        /\ session_start_time = NoStart
        /\ focus_duration = 0
        /\ break_duration = 0
        /\ timer_active = FALSE
        /\ blocking = FALSE

RateFiles == {to_dict(0, 1, 2, WithLevels(book, 0, 0)) : book \in 0..MaxLevel}

RatesInit == \E file \in RateFiles : constructed_on(file)

RatesNext ==
    \/ \E slot \in SlotArgs : get_enhance_rates(slot)
    \/ \E slot \in SlotArgs : enhance(slot)

RatesSpec == RatesInit /\ [][RatesNext]_vars

---------------------------------------------------------------------------
(* Purchases at more than one price: the points and scrolls calls alone.   *)

PurchaseNext ==
    \/ \E amount \in Amounts : add_points(amount)
    \/ \E m \in FocusMinutes, c \in Cycles, d \in FocusDurations :
           grant_points_from_session(m, c, d)
    \/ \E q \in Quantities, cost \in Costs : buy_scroll(q, cost)
    \/ \E slot \in SlotArgs : enhance(slot)

PurchaseSpec == Init /\ [][PurchaseNext]_vars

---------------------------------------------------------------------------
(* The points of a session: grant_points_from_session with arguments of    *)
(* every sign, and purchases that spend what it grants.                    *)

GrantNext ==
    \/ \E m \in GrantMinutes, c \in GrantCycles, d \in GrantDurations :
           grant_points_from_session(m, c, d)
    \/ \E q \in Quantities : buy_scroll(q, DefaultCost)

GrantSpec == Init /\ [][GrantNext]_vars

---------------------------------------------------------------------------
(* Loading: a manager constructed over a progression.json that lacks       *)
(* slots or fields, or holds a slot of its own, and then every call.       *)

PartialFiles ==
    {[points |-> 40, stage |-> 1, scrolls |-> 1,
      inventory |-> [book |-> [base_power |-> 12, enhancement |-> 2]]],
     [points |-> 0, scrolls |-> 1,
      inventory |-> [book |-> [enhancement |-> 3],
                     pencil |-> [base_power |-> 9],
                     laptop |-> [base_power |-> 15, enhancement |-> 1]]],
     [points |-> 40, stage |-> 2],
     [points |-> 0, stage |-> 1, scrolls |-> 1,
      inventory |-> [book |-> [base_power |-> 10, enhancement |-> 0],
                     pencil |-> [base_power |-> 7, enhancement |-> 0],
                     laptop |-> [base_power |-> 15, enhancement |-> 0],
                     eraser |-> [base_power |-> 5, enhancement |-> 4]]]}

LoadInit ==
    \E file \in PartialFiles :
        LET loaded == _load_state(file)
        IN  /\ disk = file
            /\ points = loaded.points
            /\ stage = loaded.stage
            /\ scrolls = loaded.scrolls
            /\ inventory = loaded.inventory
            /\ battle_state = NoBattle
            /\ disk_fails = FALSE
            /\ pc = "idle"
            /\ advanced = FALSE
            /\ ret = ReturnedNone("__init__")
            /\ granted = 0
            /\ enhance_results = 0
            /\ io = "none"
            /\ failed_writes = 0
            /\ sessions = load_sessions(NoFile)
            /\ sessions_file = NoFile
            /\ today = 0
            /\ is_running = FALSE
            /\ current_state = "READY"
            /\ current_cycle = 0
            /\ total_cycles = 0
            /\ time_left = 0
            /\ total_focus_seconds = 0
            /\ session_start_time = NoStart
            /\ focus_duration = 0
            /\ break_duration = 0
            /\ timer_active = FALSE
            /\ blocking = FALSE

LoadNext ==
    \/ \E q \in Quantities : buy_scroll(q, DefaultCost)
    \/ \E slot \in SlotArgs : enhance(slot)
    \/ try_auto_advance
    \/ try_auto_advance_loop
    \/ \E dmg \in damage_choices(total_power, Damages) : hit_stage_battle(dmg)

LoadSpec == LoadInit /\ [][LoadNext]_vars

---------------------------------------------------------------------------
(* The session log: sessions that started today or yesterday are added as  *)
(* the days pass, on a data directory where a write may fail, and the      *)
(* statistics are read.                                                    *)

SessionInit ==
    /\ points = 0
    /\ stage = 1
    /\ scrolls = 0
    /\ inventory = _default_inventory
    /\ battle_state = NoBattle
    /\ disk = NoFile
    /\ disk_fails = TRUE
    /\ pc = "idle"
    /\ advanced = FALSE
    /\ ret = ReturnedNone("__init__")
    /\ granted = 0
    /\ enhance_results = 0
    /\ io = "none"
    /\ failed_writes = 0
    /\ sessions = load_sessions(NoFile)
    /\ sessions_file = NoFile
    /\ today = 0
    /\ is_running = FALSE
    /\ current_state = "READY"
    /\ current_cycle = 0
    /\ total_cycles = 0
    /\ time_left = 0
    /\ total_focus_seconds = 0
    /\ session_start_time = NoStart
    /\ focus_duration = 0
    /\ break_duration = 0
    /\ timer_active = FALSE
    /\ blocking = FALSE

\* The days a session that ends today can have started on.
StartDays == {day \in {today - 1, today} : day >= 0}

\* add_session() as the timer calls it for a session of shape `shape` that
\* started on `day`.
add_session_of(day, shape) ==
    add_session_call([day |-> day, clock |-> shape.clock],
                     [day |-> today, clock |-> shape.clock],
                     shape.total_focus_minutes, shape.total_cycles,
                     shape.completed_cycles, shape.focus_duration,
                     shape.break_duration)

AnySession == \E day \in StartDays, shape \in SessionShapes : add_session_of(day, shape)

SessionNext ==
    \/ AnySession
    \/ get_statistics
    \/ next_day

SessionSpec == SessionInit /\ [][SessionNext]_vars

---------------------------------------------------------------------------
(* The recent sessions: the log grows as the days pass and its most recent *)
(* records are read, with limits below, at and above its length (10 is the *)
(* default).                                                               *)

Limits == {-1, 0, 1, 2, 10}

RecentNext ==
    \/ AnySession
    \/ next_day
    \/ \E limit \in Limits : get_recent_sessions(limit)

RecentSpec == Init /\ [][RecentNext]_vars

---------------------------------------------------------------------------
(* The focus timer: sessions started, ticked through and stopped at any    *)
(* second.                                                                 *)

TimerNext ==
    \/ \E cycle_input \in CycleInputs, focus_input \in FocusInputs,
          break_input \in BreakInputs :
           start_session(cycle_input, focus_input, break_input)
    \/ stop_session
    \/ update_timer

TimerSpec == Init /\ [][TimerNext]_vars

---------------------------------------------------------------------------
(* The rank of a score: _calculate_rank on its own.                        *)

RankNext == \E score \in Scores : calculate_rank(score)

RankSpec == Init /\ [][RankNext]_vars

---------------------------------------------------------------------------
(* Failing writes: the calls that write progression.json or sessions.json, *)
(* on a data directory where any write may fail.                           *)

\* One session, as the timer reports it on the day it started.
FaultSessions ==
    {[start_time |-> [day |-> 0, clock |-> 0],
      end_time |-> [day |-> 0, clock |-> 1],
      total_focus_minutes |-> 50,
      total_cycles |-> 2,
      completed_cycles |-> 2,
      focus_duration |-> 25,
      break_duration |-> 5]}

FaultInit ==
    /\ points = 0
    /\ stage = 1
    /\ scrolls = 0
    /\ inventory = _default_inventory
    /\ battle_state = NoBattle
    /\ disk = NoFile
    /\ disk_fails = TRUE
    /\ pc = "idle"
    /\ advanced = FALSE
    /\ ret = ReturnedNone("__init__")
    /\ granted = 0
    /\ enhance_results = 0
    /\ io = "none"
    /\ failed_writes = 0
    /\ sessions = load_sessions(NoFile)
    /\ sessions_file = NoFile
    /\ today = 0
    /\ is_running = FALSE
    /\ current_state = "READY"
    /\ current_cycle = 0
    /\ total_cycles = 0
    /\ time_left = 0
    /\ total_focus_seconds = 0
    /\ session_start_time = NoStart
    /\ focus_duration = 0
    /\ break_duration = 0
    /\ timer_active = FALSE
    /\ blocking = FALSE

FaultNext ==
    \/ grant_points_from_session(200, 8, 50)
    \/ buy_scroll(1, DefaultCost)
    \/ enhance("laptop")
    \/ try_auto_advance
    \/ try_auto_advance_loop
    \/ \E dmg \in damage_choices(total_power, Damages) : hit_stage_battle(dmg)
    \/ \E s \in FaultSessions :
           add_session_call(s.start_time, s.end_time, s.total_focus_minutes,
                            s.total_cycles, s.completed_cycles, s.focus_duration,
                            s.break_duration)

FaultSpec == FaultInit /\ [][FaultNext]_vars

\* The outcomes in which the except clause catches something.
FailedOutcomes == {"open_failed", "write_failed"}

\* The calls of FaultNext that add a session.
AnyFaultSession ==
    \E s \in FaultSessions :
        add_session_call(s.start_time, s.end_time, s.total_focus_minutes,
                         s.total_cycles, s.completed_cycles, s.focus_duration,
                         s.break_duration)

---------------------------------------------------------------------------
(* Enhancement and purchase: the scroll and point balances.                *)

\* C1: for every known slot and every state with scrolls > 0, enhance(slot)
\* lowers scrolls by exactly 1, whatever the success roll and the downgrade
\* roll give, and returns a result.
C1_EnhanceConsumesOneScroll ==
    [][\A slot \in Slots :
          (scrolls > 0 /\ enhance(slot)) =>
              /\ scrolls' = scrolls - 1
              /\ ~ret'.none /\ ret'.op = "enhance"]_vars

\* A failed enhancement that also lowered the level has been made.
C1_Witness ==
    /\ ret.op = "enhance" /\ ~ret.none
    /\ ~ret.val.success /\ ret.val.downgraded
    /\ ret.val.before_level >= 2

\* C2: enhance(slot) with an unknown slot, or with scrolls <= 0, returns None
\* and leaves points, stage, scrolls, every level, the battle and the file as
\* they were.
C2_EnhanceRefusedChangesNothing ==
    [][\A slot \in SlotArgs :
          ((slot \notin Slots \/ scrolls <= 0) /\ enhance(slot)) =>
              /\ ret'.none /\ ret'.op = "enhance"
              /\ UNCHANGED <<points, stage, scrolls, inventory, battle_state, disk>>]_vars

\* enhance() of an unknown slot has returned None although scrolls were there.
C2_Witness ==
    /\ ret.op = "enhance" /\ ret.none
    /\ scrolls > 0

\* C3: buy_scroll(quantity, cost) returns False and changes neither points nor
\* scrolls when quantity <= 0 or points < quantity * cost; otherwise it returns
\* True, takes quantity * cost points and adds quantity scrolls.
C3_BuyScroll ==
    [][\A q \in Quantities, cost \in Costs :
          buy_scroll(q, cost) =>
              /\ ret'.op = "buy_scroll" /\ ~ret'.none
              /\ IF q <= 0 \/ points < q * cost
                 THEN /\ ret'.val = FALSE
                      /\ points' = points /\ scrolls' = scrolls
                 ELSE /\ ret'.val = TRUE
                      /\ points' = points - q * cost
                      /\ scrolls' = scrolls + q]_vars

\* Three scrolls have been bought with exactly 120 points, leaving 0.
C3_Witness ==
    /\ ret.op = "buy_scroll" /\ ret.val = TRUE
    /\ points = 0 /\ scrolls = 3 /\ granted = 3 * DefaultCost

\* C4: from the default state, whatever calls are made, points >= 0 and
\* scrolls >= 0.
C4_BalancesNonNegative == points >= 0 /\ scrolls >= 0

\* Every point granted has been spent on scrolls and every scroll used.
C4_Witness ==
    /\ granted >= 3 * DefaultCost
    /\ points = 0 /\ scrolls = 0
    /\ ret.op = "enhance" /\ ~ret.none

\* C6: every slot's enhancement level is >= 0 in every reachable state.
C6_LevelsNonNegative == \A slot \in Slots : inventory[slot].enhancement >= 0

\* An enhancement of a level-0 item has failed.
C6_Witness ==
    /\ ret.op = "enhance" /\ ~ret.none
    /\ ~ret.val.success /\ ret.val.before_level = 0
    /\ inventory[ret.val.slot].enhancement = 0

---------------------------------------------------------------------------
(* Points from sessions.                                                   *)

\* C11 as stated: grant_points_from_session(m, c, fd) returns 0 and changes
\* nothing when m <= 0 and c <= 0; for every other input it returns
\* (m // 5) + c * 3 + c * (fd // 25) and adds exactly that to points, leaving
\* scrolls, stage and inventory unchanged.
C11_AsStated ==
    [][\A m \in GrantMinutes, c \in GrantCycles, fd \in GrantDurations :
          grant_points_from_session(m, c, fd) =>
              /\ ret'.op = "grant_points_from_session" /\ ~ret'.none
              /\ IF m <= 0 /\ c <= 0
                 THEN /\ ret'.val = 0
                      /\ UNCHANGED <<points, scrolls, stage, inventory, disk>>
                 ELSE /\ ret'.val = (m \div 5) + c * 3 + c * (fd \div 25)
                      /\ points' = points + ret'.val
                      /\ UNCHANGED <<scrolls, stage, inventory>>]_vars

\* C11: grant_points_from_session(m, c, fd) returns 0 and changes nothing
\* when m <= 0 and c <= 0; for every other input it returns
\* max(m // 5, 0) + max(c, 0) * 3 + max(c, 0) * max(fd // 25, 0), which is
\* (m // 5) + c * 3 + c * (fd // 25) when m, c and fd are all >= 0, and adds
\* exactly that to points, leaving scrolls, stage and inventory unchanged.
C11_GrantPoints ==
    [][\A m \in GrantMinutes, c \in GrantCycles, fd \in GrantDurations :
          grant_points_from_session(m, c, fd) =>
              /\ ret'.op = "grant_points_from_session" /\ ~ret'.none
              /\ IF m <= 0 /\ c <= 0
                 THEN /\ ret'.val = 0
                      /\ UNCHANGED <<points, scrolls, stage, inventory, disk>>
                 ELSE /\ ret'.val = Max(m \div 5, 0) + Max(c, 0) * 3
                                        + Max(c, 0) * Max(fd \div 25, 0)
                      /\ (m >= 0 /\ c >= 0 /\ fd >= 0) =>
                             ret'.val = (m \div 5) + c * 3 + c * (fd \div 25)
                      /\ points' = points + ret'.val
                      /\ UNCHANGED <<scrolls, stage, inventory>>]_vars

\* A session of 25 minutes and 4 cycles of 60 has granted its 5 + 12 + 8
\* points, on top of earlier grants and after a purchase.
C11_Witness ==
    /\ ret.op = "grant_points_from_session" /\ ret.val = 25
    /\ scrolls > 0 /\ points = granted - scrolls * DefaultCost
    /\ points > 25

---------------------------------------------------------------------------
(* Persistence.                                                            *)

\* C12: after any sequence of calls whose writes all succeed, a fresh manager
\* that loads progression.json has the points, stage and scrolls of the
\* running one, and each slot's enhancement and base_power.
C12_RoundTrip ==
    (pc = "idle" /\ ~disk_fails) =>
        LET loaded == _load_state(disk)
        IN  /\ loaded.points = points
            /\ loaded.stage = stage
            /\ loaded.scrolls = scrolls
            /\ \A slot \in Slots :
                   /\ loaded.inventory[slot].enhancement = inventory[slot].enhancement
                   /\ loaded.inventory[slot].base_power = inventory[slot].base_power

\* A file written after points were granted, scrolls bought, an item enhanced
\* twice and the stage raised.
C12_Witness ==
    /\ pc = "idle" /\ disk # NoFile
    /\ granted > 0 /\ scrolls > 0 /\ stage >= 2
    /\ \E slot \in Slots : inventory[slot].enhancement >= 2

\* C20: the inventory always holds exactly book, pencil and laptop: loading
\* a file fills a slot it lacks from the defaults (base power 10, 7, 15,
\* enhancement 0); a slot it holds keeps its own enhancement and base_power
\* and takes the default only for a field it lacks; no later call adds or
\* removes a slot.
C20_ThreeSlots ==
    /\ [](/\ DOMAIN inventory = {"book", "pencil", "laptop"}
          /\ \A slot \in DOMAIN inventory :
                 DOMAIN inventory[slot] = {"base_power", "enhancement"})
    /\ [](ret.op = "__init__" =>
            LET persisted == IF "inventory" \in DOMAIN disk
                             THEN disk.inventory ELSE EmptyDict
                default_power == [book |-> 10, pencil |-> 7, laptop |-> 15]
            IN  \A slot \in {"book", "pencil", "laptop"} :
                    /\ inventory[slot].enhancement =
                           IF slot \in DOMAIN persisted
                              /\ "enhancement" \in DOMAIN persisted[slot]
                           THEN persisted[slot].enhancement ELSE 0
                    /\ inventory[slot].base_power =
                           IF slot \in DOMAIN persisted
                              /\ "base_power" \in DOMAIN persisted[slot]
                           THEN persisted[slot].base_power
                           ELSE default_power[slot])
    /\ [][DOMAIN inventory' = DOMAIN inventory]_vars

\* A manager loaded from a file holding only a book of base power 12 has
\* enhanced a slot the file lacked.
C20_Witness ==
    /\ inventory["book"].base_power = 12
    /\ ret.op = "enhance" /\ ~ret.none /\ ret.val.slot = "laptop"
    /\ ret.val.success
    /\ disk.inventory["laptop"].enhancement = 1

\* C13: when the write of a mutating call (add_session,
\* grant_points_from_session, buy_scroll, enhance, a try_auto_advance or a
\* hit_stage_battle that raises the stage) fails, the call returns what it
\* returns otherwise, the state in memory holds the new value and the file
\* keeps the old one; the next such call whose write succeeds makes the file
\* equal to the state in memory again.
C13_FailedWriteKeepsFile ==
    [][/\ io' \in FailedOutcomes =>
            /\ UNCHANGED <<disk, sessions_file>>
            /\ grant_points_from_session(200, 8, 50) =>
                   ret'.val = 80 /\ points' = points + 80
            /\ buy_scroll(1, DefaultCost) =>
                   /\ ret'.val = TRUE
                   /\ points' = points - DefaultCost /\ scrolls' = scrolls + 1
            /\ enhance("laptop") =>
                   /\ ~ret'.none /\ scrolls' = scrolls - 1
                   /\ inventory'["laptop"].enhancement = ret'.val.after_level
            /\ (try_auto_advance \/ try_auto_advance_loop) =>
                   ~ret'.none /\ ret'.val = stage' /\ stage' > 1
            /\ AnyHit =>
                   ret'.val.success /\ stage' = ret'.val.target_stage
            /\ AnyFaultSession =>
                   ret'.none /\ Len(sessions') = Len(sessions) + 1
       /\ io' = "ok" =>
            IF AnyFaultSession
            THEN load_sessions(sessions_file') = sessions'
            ELSE disk' = to_dict(points', stage', scrolls', inventory')]_vars

---------------------------------------------------------------------------
(* Session statistics.                                                     *)

\* C14: the rank of a score is BRONZE below 100, SILVER from 100 to 299, GOLD
\* from 300 to 599, PLATINUM from 600 to 999, DIAMOND from 1000 to 1999,
\* MASTER from 2000 to 3999, GRANDMASTER from 4000 to 7999, CHALLENGER from
\* 8000 to 14999 and LEGEND from 15000; 99 is BRONZE, 100 SILVER, 14999
\* CHALLENGER, 15000 LEGEND; a higher score never has a lower rank.
C14_RankThresholds ==
    /\ _calculate_rank(99).rank = "BRONZE"
    /\ _calculate_rank(100).rank = "SILVER"
    /\ _calculate_rank(14999).rank = "CHALLENGER"
    /\ _calculate_rank(15000).rank = "LEGEND"
    /\ ret.op = "_calculate_rank" =>
           LET score == ret.val.score
               rank == ret.val.rank
           IN  /\ rank = "BRONZE" <=> score < 100
               /\ rank = "SILVER" <=> (100 <= score /\ score < 300)
               /\ rank = "GOLD" <=> (300 <= score /\ score < 600)
               /\ rank = "PLATINUM" <=> (600 <= score /\ score < 1000)
               /\ rank = "DIAMOND" <=> (1000 <= score /\ score < 2000)
               /\ rank = "MASTER" <=> (2000 <= score /\ score < 4000)
               /\ rank = "GRANDMASTER" <=> (4000 <= score /\ score < 8000)
               /\ rank = "CHALLENGER" <=> (8000 <= score /\ score < 15000)
               /\ rank = "LEGEND" <=> score >= 15000
               /\ \A lower \in Scores :
                      lower <= score =>
                          TierIndex(_calculate_rank(lower).rank) <= TierIndex(rank)

\* _calculate_rank(15000) has returned LEGEND.
C14_Witness ==
    /\ ret.op = "_calculate_rank"
    /\ ret.val.score = 15000 /\ ret.val.rank = "LEGEND"

\* C15: for every session log, total_score of get_statistics is the sum of
\* total_focus_minutes, plus 10 for each record whose completed_cycles equal
\* its total_cycles, plus 5 times current_streak, and the reported rank is
\* the rank of exactly that score.
C15_TotalScoreAndRank ==
    LET stats == statistics(sessions, today)
        complete == {i \in DOMAIN sessions :
                        sessions[i].completed_cycles = sessions[i].total_cycles}
    IN  /\ stats.total_score =
               SumOf(sessions, "total_focus_minutes") + 10 * Cardinality(complete)
                   + 5 * stats.current_streak
        /\ stats.rank = _calculate_rank(stats.total_score).rank

\* C16: current_streak is the length of the longest run of consecutive days
\* with a session that ends at today when today has a session, at yesterday
\* when today has none, and 0 when neither has one; sessions on three
\* consecutive days ending today give 3; a session today after a day
\* without one gives 1.
C16_CurrentStreak ==
    LET stats == statistics(sessions, today)
        days == {sessions[i].date : i \in DOMAIN sessions}
        run(last) == CHOOSE n \in 0..Len(sessions) :
                        /\ \A k \in 0..(n - 1) : last - k \in days
                        /\ last - n \notin days
    IN  /\ stats.current_streak =
               IF today \in days THEN run(today)
               ELSE IF today - 1 \in days THEN run(today - 1)
               ELSE 0
        /\ ({today, today - 1, today - 2} \subseteq days /\ today - 3 \notin days)
               => stats.current_streak = 3
        /\ (today \in days /\ today - 1 \notin days) => stats.current_streak = 1

\* get_statistics() has reported a streak of 2 that ends yesterday, today
\* having no session.
C16_Witness ==
    /\ ret.op = "get_statistics" /\ ret.val = statistics(sessions, today)
    /\ ret.val.current_streak = 2
    /\ {sessions[i].date : i \in DOMAIN sessions} = {today - 1, today - 2}

\* C17: add_session makes the log the previous log followed by the new
\* record, the earlier records unchanged and in place, and writes the whole
\* list; when the write fails the appended record stays in memory and the
\* call returns as usual.
C17_AppendOnly ==
    [][\A day \in StartDays, shape \in SessionShapes :
          add_session_of(day, shape) =>
              /\ Len(sessions') = Len(sessions) + 1
              /\ \A i \in 1..Len(sessions) : sessions'[i] = sessions[i]
              /\ sessions'[Len(sessions')] =
                     [start_time |-> <<day, shape.clock>>,
                      end_time |-> <<today, shape.clock>>,
                      total_focus_minutes |-> shape.total_focus_minutes,
                      total_cycles |-> shape.total_cycles,
                      completed_cycles |-> shape.completed_cycles,
                      focus_duration |-> shape.focus_duration,
                      break_duration |-> shape.break_duration,
                      date |-> day]
              /\ ret'.op = "add_session" /\ ret'.none
              /\ io' = "ok" => sessions_file' = json_list(sessions')
              /\ io' \in FailedOutcomes => sessions_file' # json_list(sessions')]_vars

\* A third record is in memory behind two that were written, its own write
\* having failed.
C17_Witness ==
    /\ ret.op = "add_session" /\ io \in FailedOutcomes
    /\ Len(sessions) = 3
    /\ sessions[3] # sessions[2]

\* C18: every record the focus timer writes has 0 <= completed_cycles <=
\* total_cycles: in every reachable state of a running timer (focus or
\* break, whatever the cycle) a stop would write such a record, the record a
\* stop writes is such, and so is the record of a session that ran through.
C18_CompletedWithinTotal ==
    /\ [](is_running =>
            /\ current_state \in {"FOCUS", "BREAK"}
            /\ total_cycles >= 1
            /\ IF current_state = "FOCUS"
               THEN 0 <= current_cycle - 1 /\ current_cycle - 1 <= total_cycles
               ELSE 0 <= current_cycle /\ current_cycle <= total_cycles)
    /\ [][(stop_session \/ update_timer) /\ sessions' # sessions =>
             LET written_record == sessions'[Len(sessions')]
             IN  /\ Len(sessions') = Len(sessions) + 1
                 /\ written_record.total_cycles = total_cycles
                 /\ 0 <= written_record.completed_cycles
                 /\ written_record.completed_cycles <= written_record.total_cycles
                 /\ update_timer =>
                        written_record.completed_cycles = total_cycles]_vars

\* A session of two cycles has run through after one that was stopped in
\* its first focus and one stopped with one cycle done.
C18_Witness ==
    /\ ret.op = "update_timer" /\ ~is_running
    /\ Len(sessions) = 3
    /\ sessions[1].completed_cycles = 0
    /\ sessions[2].completed_cycles = 1 /\ sessions[2].total_cycles = 2
    /\ sessions[3].completed_cycles = 2 /\ sessions[3].total_cycles = 2

\* C19: for every session log, the empty one included, the rank of
\* get_statistics is one of the tier codes BRONZE to LEGEND and rank_display
\* its display name, or at LEGEND the score as text; with no session and a
\* score of 0 the rank is BRONZE.
C19_RankIsTierCode ==
    LET stats == statistics(sessions, today)
    IN  /\ \E i \in 1..Len(Tiers) : stats.rank = Tiers[i]
        /\ stats.rank_display =
               IF stats.rank = "LEGEND" THEN score_text(stats.total_score)
               ELSE rank_names[stats.rank]
        /\ sessions = <<>> => stats.total_score = 0 /\ stats.rank = "BRONZE"

---------------------------------------------------------------------------
(* Stages.                                                                 *)

\* C5: the stage never decreases, whatever the interleaving of enhance,
\* try_auto_advance, start_stage_battle and hit_stage_battle.
C5_StageNeverDecreases == [][stage' >= stage]_vars

\* C10: try_auto_advance terminates; each stage it steps to has its power
\* requirement met; when it returns, total_power() < _power_requirement(stage + 1);
\* it returns None with the stage unchanged when that already held at the call,
\* and the final stage when it raised the stage at least once.
C10_TryAutoAdvance ==
    /\ [][(try_auto_advance \/ try_auto_advance_loop) =>
            /\ (stage' # stage =>
                   /\ stage' = stage + 1
                   /\ total_power >= _power_requirement(stage') * 100
                   /\ pc' = "try_auto_advance")
            /\ (pc = "idle" /\ total_power < _power_requirement(stage + 1) * 100 =>
                   pc' = "idle" /\ ret'.op = "try_auto_advance" /\ ret'.none)
            /\ (pc' = "idle" =>
                   /\ stage' = stage
                   /\ total_power' < _power_requirement(stage' + 1) * 100
                   /\ ret'.op = "try_auto_advance"
                   /\ IF pc = "idle" THEN ret'.none
                      ELSE ~ret'.none /\ ret'.val = stage')]_vars
    /\ ((pc = "try_auto_advance") ~> (pc = "idle"))

\* A call has returned the stage it raised to, stage 3 or beyond.
C10_Witness ==
    /\ pc = "idle"
    /\ ret.op = "try_auto_advance" /\ ~ret.none
    /\ ret.val = stage /\ stage >= 3

---------------------------------------------------------------------------
(* The battle.                                                             *)

\* C7: hits_used <= limit = 10 for every battle state and every hit result, and
\* a hit reports finished exactly when, its damage applied, remaining_hp <= 0 or
\* hits_used = limit.
C7_HitLimit ==
    /\ battle_state # NoBattle =>
           battle_state.limit = 10 /\ battle_state.hits_used <= battle_state.limit
    /\ ret.op = "hit_stage_battle" =>
           /\ ret.val.limit = 10 /\ ret.val.hits_used <= ret.val.limit
           /\ ret.val.finished <=>
                  (ret.val.remaining_hp <= 0 \/ ret.val.hits_used = ret.val.limit)
           /\ ret.val.success <=> ret.val.remaining_hp <= 0

\* The tenth hit has ended a battle with hp left.
C7_Witness ==
    /\ ret.op = "hit_stage_battle"
    /\ ret.val.finished /\ ~ret.val.success
    /\ ret.val.hits_used = 10 /\ ret.val.remaining_hp > 0

\* C8: each hit raises hits_used by exactly 1, from 0 when it starts the battle
\* itself; after a hit that reports finished, won or lost, the battle state is
\* cleared and get_battle_status() reports in_progress = false, hits_used = 0;
\* after any other hit the battle goes on with the reported hits_used.
C8_HitsCountUp ==
    [][AnyHit =>
          /\ ret'.op = "hit_stage_battle"
          /\ ret'.val.hits_used =
                 (IF battle_state = NoBattle THEN 0 ELSE battle_state.hits_used) + 1
          /\ ret'.val.hit_index = ret'.val.hits_used
          /\ IF ret'.val.finished
             THEN /\ battle_state' = NoBattle
                  /\ get_battle_status'.in_progress = FALSE
                  /\ get_battle_status'.hits_used = 0
             ELSE /\ get_battle_status'.in_progress = TRUE
                  /\ get_battle_status'.hits_used = ret'.val.hits_used]_vars

\* A battle has been won before the tenth hit and is cleared.
C8_Witness ==
    /\ ret.op = "hit_stage_battle"
    /\ ret.val.finished /\ ret.val.success
    /\ ret.val.hits_used < 10
    /\ battle_state = NoBattle

\* C9: a hit changes the stage only when it finishes the battle with success;
\* it then sets the stage to the battle's target_stage and saves the state.  A
\* hit that does not finish the battle, or finishes it at the hit limit with
\* hp left, leaves stage, points, scrolls, inventory and the file unchanged.
C9_HitStageEffect ==
    [][AnyHit =>
          /\ UNCHANGED <<points, scrolls, inventory>>
          /\ IF ret'.val.finished /\ ret'.val.success
             THEN /\ stage' = ret'.val.target_stage
                  /\ disk' = to_dict(points', stage', scrolls', inventory')
             ELSE UNCHANGED <<stage, disk>>]_vars

\* A won battle has set the stage to its target and the file holds it.
C9_Witness ==
    /\ ret.op = "hit_stage_battle"
    /\ ret.val.success
    /\ stage = ret.val.target_stage
    /\ disk # NoFile /\ disk.stage = stage

---------------------------------------------------------------------------
(* Enhancement: the level an enhance() call leaves.                        *)

\* C21: enhance on a known slot at level L with scrolls > 0: when the success
\* roll is within the success rate the level becomes L + 1 and the result has
\* success true and downgraded false; when it is not, the level becomes L - 1
\* exactly if L > 0 and the downgrade roll is within the downgrade rate (and
\* then downgraded is true) and stays L otherwise; before_level is L,
\* after_level is the slot's level after the call, and no other slot and no
\* base_power changes.
C21_EnhanceLevels ==
    [][\A slot \in Slots, roll \in Rolls, roll2 \in Rolls :
          (scrolls > 0 /\ pc = "idle" /\ enhance_rolled(slot, roll, roll2)) =>
              LET L == inventory[slot].enhancement
                  succeeds == roll <= Max(900 - 80 * L, 150)
                  hits == roll2 <= (IF L <= 1 THEN 0 ELSE Min(30 * (L - 1), 200))
                  lowered == ~succeeds /\ L > 0 /\ hits
                  level == inventory'[slot].enhancement
              IN  /\ ~ret'.none
                  /\ ret'.val.success = succeeds
                  /\ ret'.val.downgraded = lowered
                  /\ level = IF succeeds THEN L + 1 ELSE IF lowered THEN L - 1 ELSE L
                  /\ ret'.val.before_level = L
                  /\ ret'.val.after_level = level
                  /\ \A other \in Slots \ {slot} : inventory'[other] = inventory[other]
                  /\ inventory'[slot].base_power = inventory[slot].base_power]_vars

\* An item at level 2 failed its enhancement and kept its level: the
\* downgrade roll was above the downgrade rate.
C21_Witness ==
    /\ ret.op = "enhance" /\ ~ret.none
    /\ ~ret.val.success /\ ~ret.val.downgraded
    /\ ret.val.before_level = 2 /\ ret.val.after_level = 2
    /\ inventory[ret.val.slot].enhancement = 2

\* C22: a failed enhancement never lowers an item at level 0 or 1: whatever
\* the two rolls are, enhance on an item at level <= 1 returns a result with
\* downgraded false and after_level >= before_level.
C22_NoDowngradeBelowTwo ==
    [][\A slot \in Slots, roll \in Rolls, roll2 \in Rolls :
          (scrolls > 0 /\ pc = "idle" /\ inventory[slot].enhancement <= 1
              /\ enhance_rolled(slot, roll, roll2)) =>
              /\ ~ret'.val.downgraded
              /\ ret'.val.after_level >= ret'.val.before_level
              /\ inventory'[slot].enhancement >= inventory[slot].enhancement]_vars

\* C23: at every level L >= 0 the success rate is max(90 - 8L, 15) percent
\* and the downgrade rate 0 percent for L <= 1 and min(3(L - 1), 20) percent
\* otherwise (success 90 at L = 0, 50 at L = 5, 15 from L = 10 on; downgrade
\* 12 at L = 5, 20 from L = 8 on); get_enhance_rates(slot) returns these two
\* percentages (here in tenths of a percent) for the slot's current level,
\* 0 and 0 for an unknown slot, and changes no state.
C23_EnhanceRates ==
    [][\A slot \in SlotArgs :
          get_enhance_rates(slot) =>
              /\ slot \in Slots =>
                    LET L == inventory[slot].enhancement
                        rates == ret'.val
                    IN  /\ rates.success = 10 * Max(90 - 8 * L, 15)
                        /\ rates.downgrade =
                               10 * (IF L <= 1 THEN 0 ELSE Min(3 * (L - 1), 20))
                        /\ L = 0 => rates.success = 900
                        /\ L = 5 => rates.success = 500 /\ rates.downgrade = 120
                        /\ L >= 10 => rates.success = 150
                        /\ L >= 8 => rates.downgrade = 200
              /\ slot \notin Slots => ret'.val = [success |-> 0, downgrade |-> 0]
              /\ UNCHANGED <<points, stage, scrolls, inventory, battle_state, disk,
                             sessions, sessions_file>>]_vars

\* The rates of an item beyond level 10 have been read: both at their bounds.
C23_Witness ==
    /\ ret.op = "get_enhance_rates"
    /\ ret.val = [success |-> 150, downgrade |-> 200]
    /\ \E slot \in Slots : inventory[slot].enhancement > 10

---------------------------------------------------------------------------
(* The statistics of the session log: the longest streak, the recent       *)
(* sessions.                                                               *)

\* C24: longest_streak is the greatest length of a run of consecutive
\* calendar dates among the distinct session dates: 0 for an empty log, 1
\* when no two session dates are adjacent; and adding a session whose date
\* has no session date on it, before it or after it leaves longest_streak as
\* it was, unless the log was empty and the new run of 1 is the longest.
C24_LongestStreak ==
    /\ [](LET dates == {sessions[i].date : i \in DOMAIN sessions}
              runs == {n \in 1..Cardinality(dates) :
                          \E first \in dates : \A k \in 0..(n - 1) : first + k \in dates}
              longest == statistics(sessions, today).longest_streak
          IN  /\ sessions = <<>> => longest = 0
              /\ sessions # <<>> => longest \in runs /\ \A n \in runs : n <= longest
              /\ (sessions # <<>> /\ \A d \in dates : d + 1 \notin dates) => longest = 1
              /\ (ret.op = "get_statistics" /\ pc = "idle") =>
                     ret.val.longest_streak = longest)
    /\ [][sessions' # sessions =>
             LET dates == {sessions[i].date : i \in DOMAIN sessions}
                 added == sessions'[Len(sessions')].date
                 apart == \A d \in dates : d # added /\ d # added - 1 /\ d # added + 1
                 longest == statistics(sessions, today).longest_streak
             IN  apart => statistics(sessions', today').longest_streak = Max(longest, 1)]_vars

\* The log holds sessions of three dates, two of them adjacent and the third
\* apart, and get_statistics has returned a longest streak of 2.
C24_Witness ==
    /\ ret.op = "get_statistics"
    /\ ret.val.longest_streak = 2
    /\ {sessions[i].date : i \in DOMAIN sessions} = {0, 1, 3}

\* C25: get_recent_sessions(limit), for limit >= 0, returns min(limit, number
\* of records) records: those with the greatest start_time, in descending
\* order of start_time, records of equal start_time in the order in which
\* they were appended; the stored log and its file are left as they were.
C25_RecentSessions ==
    [][\A limit \in Limits :
          (limit >= 0 /\ get_recent_sessions(limit)) =>
              LET recent == ret'.val
                  n == Len(sessions)
                  later(a, b) == a[1] > b[1] \/ (a[1] = b[1] /\ a[2] > b[2])
                  ahead(i, j) ==
                      \/ later(sessions[i].start_time, sessions[j].start_time)
                      \/ sessions[i].start_time = sessions[j].start_time /\ i < j
              IN  /\ Len(recent) = Min(limit, n)
                  /\ \E idx \in [DOMAIN recent -> 1..n] :
                        /\ \A k \in DOMAIN recent : recent[k] = sessions[idx[k]]
                        /\ \A k, l \in DOMAIN recent : k < l => ahead(idx[k], idx[l])
                        /\ \A j \in 1..n :
                              (\A k \in DOMAIN recent : idx[k] # j) =>
                                  \A k \in DOMAIN recent : ahead(idx[k], j)
                  /\ sessions' = sessions
                  /\ sessions_file' = sessions_file]_vars

\* Two of three sessions were returned: the second and third of the log,
\* which started at the same time and differ, in the order of the log, ahead
\* of nothing older.
C25_Witness ==
    /\ ret.op = "get_recent_sessions"
    /\ Len(sessions) = 3 /\ Len(ret.val) = 2
    /\ ret.val = <<sessions[2], sessions[3]>>
    /\ sessions[2].start_time = sessions[3].start_time
    /\ sessions[2] # sessions[3]

---------------------------------------------------------------------------
(* The stage battle: what is stored between calls.                         *)

\* C26: a stored battle is strictly unfinished, 0 <= hits_used < limit and
\* remaining_hp > 0, so that the tests hits_used >= limit and
\* remaining_hp <= 0 at the top of hit_stage_battle never hold of it: a hit
\* starts a new battle only when none is stored, and carries a stored one on.
C26_StoredBattleUnfinished ==
    /\ [](battle_state # NoBattle =>
             /\ 0 <= battle_state.hits_used
             /\ battle_state.hits_used < battle_state.limit
             /\ battle_state.remaining_hp > 0)
    /\ [][(ret'.op = "hit_stage_battle" /\ AnyHit) =>
             /\ needs_start(battle_state) => battle_state = NoBattle
             /\ ret'.val.hit_index =
                    IF battle_state = NoBattle THEN 1 ELSE battle_state.hits_used + 1
             /\ ret'.val.target_stage =
                    IF battle_state = NoBattle THEN stage + 1
                    ELSE battle_state.target_stage]_vars

\* A battle one hit short of its limit is stored, the enemy still standing,
\* after nine hits.
C26_Witness ==
    /\ battle_state # NoBattle
    /\ battle_state.hits_used = battle_state.limit - 1
    /\ battle_state.remaining_hp > 0
    /\ ret.op = "hit_stage_battle" /\ ret.val.hit_index = 9 /\ ~ret.val.finished

\* C27: a stored battle's target_stage is the current stage + 1 and its hp is
\* _stage_hp(stage + 1), whatever the order of start_stage_battle,
\* hit_stage_battle, enhance and try_auto_advance; so a won battle raises the
\* stage by exactly 1.
C27_TargetIsNextStage ==
    /\ []((pc = "idle" /\ battle_state # NoBattle) =>
             /\ battle_state.target_stage = stage + 1
             /\ battle_state.hp = _stage_hp(stage + 1))
    /\ [][(ret'.op = "hit_stage_battle" /\ AnyHit /\ ret'.val.success) =>
             stage' = stage + 1]_vars

---------------------------------------------------------------------------
(* Points and scrolls: the balance of what was granted.                    *)

\* C28: from the default state and at the default price of 40, in every
\* reachable state points + 40 * (scrolls + the enhance calls that returned a
\* result) is the total of the points granted by grant_points_from_session
\* and add_points; a step that adds scrolls pays 40 points for each, and only
\* an enhance call that returns a result takes a scroll, one at a time.
C28_ResourcesConserved ==
    /\ [](points + 40 * (scrolls + enhance_results) = granted)
    /\ [][/\ scrolls' > scrolls => points' = points - 40 * (scrolls' - scrolls)
          /\ scrolls' < scrolls =>
                /\ scrolls' = scrolls - 1
                /\ ret'.op = "enhance" /\ ~ret'.none
                /\ enhance_results' = enhance_results + 1
          /\ enhance_results' # enhance_results => scrolls' = scrolls - 1
          /\ (scrolls' = scrolls /\ granted' = granted) => points' = points]_vars

\* Points, scrolls and used scrolls all at once: of 120 points granted, 40
\* are left, one scroll is in hand and one enhancement was made.
C28_Witness ==
    /\ granted = 120
    /\ points = 40 /\ scrolls = 1 /\ enhance_results = 1
    /\ \E slot \in Slots : inventory[slot].enhancement = 1

---------------------------------------------------------------------------
(* The focus timer: what it records and when it blocks.                    *)

C30_BlockingOnlyInFocus ==
    /\ blocking => is_running /\ current_state = "FOCUS"
    /\ current_state \in {"BREAK", "READY"} => ~blocking
    /\ is_running => 1 <= current_cycle /\ current_cycle <= total_cycles

\* The second focus of a session of two cycles has begun, blocking again
\* after a break without it.
C30_Witness ==
    /\ is_running /\ current_state = "FOCUS" /\ blocking
    /\ current_cycle = 2 /\ total_cycles = 2
    /\ ret.op = "update_timer"

====
